---- MODULE Spec2Model ----
(***************************************************************************)
(* A model of the tomlbuilder package (kendalharland/tomlbuilder).         *)
(*                                                                         *)
(* Text is a sequence of one-character strings.  A TomlBuilder view is a   *)
(* record [IndentSize, indentation, buf], where buf is a pointer: the      *)
(* number of a bytes.Buffer of heap.  views[1] is the root builder,        *)
(* views[i+1] is the child view handed to the callback of the i-th         *)
(* AddTable/AddArrayOfTables call that has not returned yet.               *)
(***************************************************************************)
EXTENDS Integers, Sequences, FiniteSets, TLC

VARIABLES heap, views, panicked, rendered, last, nops

vars == <<heap, views, panicked, rendered, last, nops>>

\* the text of the root builder's buffer
buf == heap[views[1].buf]

(***************************************************************************)
(* Bounds of the model.                                                    *)
(***************************************************************************)
\* number of method calls and IndentSize assignments in one run
MaxOps == 3

(***************************************************************************)
(* Characters and text.                                                    *)
(***************************************************************************)
NL == "\n"
SP == " "
QUOTE == "\""
DigitChars == <<"0", "1", "2", "3", "4", "5", "6", "7", "8", "9">>

IsPrefix(s, t) == Len(s) <= Len(t) /\ SubSeq(t, 1, Len(s)) = s
Suffix(t, n) == SubSeq(t, n + 1, Len(t))
Count(t, c) == Cardinality({i \in 1..Len(t) : t[i] = c})

\* the number of characters c at the start of t
RECURSIVE Leading(_, _)
Leading(t, c) == IF t # <<>> /\ Head(t) = c THEN 1 + Leading(Tail(t), c) ELSE 0

\* the lines of t: the pieces between newlines (the piece after the last
\* newline is dropped when it is empty)
RECURSIVE LinesFrom(_, _)
LinesFrom(t, cur) ==
    IF t = <<>> THEN (IF cur = <<>> THEN <<>> ELSE <<cur>>)
    ELSE IF Head(t) = NL THEN <<cur>> \o LinesFrom(Tail(t), <<>>)
    ELSE LinesFrom(Tail(t), Append(cur, Head(t)))
Lines(t) == LinesFrom(t, <<>>)

(***************************************************************************)
(* Number formatting: fmt's %v / %d and strconv.                           *)
(***************************************************************************)
\* the decimal digits of a natural number, most significant first; none for 0
RECURSIVE Digits(_)
Digits(n) == IF n = 0 THEN <<>> ELSE Append(Digits(n \div 10), DigitChars[(n % 10) + 1])

\* %v and %d of an int
FormatInt(n) ==
    IF n = 0 THEN <<"0">>
    ELSE IF n < 0 THEN <<"-">> \o Digits(0 - n)
    ELSE Digits(n)

FormatBool(b) == IF b THEN <<"t", "r", "u", "e">> ELSE <<"f", "a", "l", "s", "e">>

(***************************************************************************)
(* A float64 is modelled by its shortest decimal representation            *)
(* (strconv's decimalSlice): [neg, m, e] is (-1)^neg * m * 10^e, where m   *)
(* does not end in the digit 0 (m = 0, e = 0 is zero).  The inputs have a  *)
(* magnitude below 2^63, where the conversion int64(val) is exact          *)
(* truncation.                                                             *)
(***************************************************************************)
Float(neg, m, e) == [neg |-> neg, m |-> m, e |-> e]
\* digs.nd and digs.dp of the shortest decimal
FloatNd(val) == Len(Digits(val.m))
FloatDp(val) == IF val.m = 0 THEN 0 ELSE FloatNd(val) + val.e
FloatDigit(val, i) == IF i >= 1 /\ i <= FloatNd(val) THEN Digits(val.m)[i] ELSE "0"

\* strconv's fmtF: %f with prec digits after the point
FmtF(val, prec) ==
    (IF val.neg THEN <<"-">> ELSE <<>>)
    \o (IF FloatDp(val) > 0
        THEN [i \in 1..FloatDp(val) |-> FloatDigit(val, i)]
        ELSE <<"0">>)
    \o (IF prec > 0
        THEN <<".">> \o [i \in 1..prec |-> FloatDigit(val, FloatDp(val) + i)]
        ELSE <<>>)

\* strconv's fmtE: %e with prec digits after the point
FmtE(val, prec) ==
    LET exp == IF val.m = 0 THEN 0 ELSE FloatDp(val) - 1
        mag == IF exp < 0 THEN 0 - exp ELSE exp
    IN  (IF val.neg THEN <<"-">> ELSE <<>>)
        \o <<FloatDigit(val, 1)>>
        \o (IF prec > 0
            THEN <<".">> \o [i \in 1..prec |-> FloatDigit(val, 1 + i)]
            ELSE <<>>)
        \o <<"e", IF exp < 0 THEN "-" ELSE "+">>
        \o (IF mag < 10 THEN <<"0">> \o FormatInt(mag) ELSE FormatInt(mag))

Max(a, b) == IF a >= b THEN a ELSE b

\* fmt's %v of a float64: strconv's %g with the shortest precision, which
\* switches to %e for a decimal exponent below -4 or from 6 on
FormatFloatG(val) ==
    LET exp == FloatDp(val) - 1
    IN  IF exp < -4 \/ exp >= 6
        THEN FmtE(val, Max(FloatNd(val) - 1, 0))
        ELSE FmtF(val, Max(FloatNd(val) - FloatDp(val), 0))

\* strconv.FormatFloat(val, 'f', -1, 64)
FormatFloatF(val) == FmtF(val, Max(FloatNd(val) - FloatDp(val), 0))

\* val == float64(int64(val))
IsIntegral(val) == val.m = 0 \/ val.e >= 0

formatFloat(val) ==
    IF IsIntegral(val) THEN FormatFloatG(val) \o <<".", "0">>
    ELSE FormatFloatF(val)

(***************************************************************************)
(* The builder.  A handler runs on a frame [buf, IndentSize, indentation,  *)
(* panicked]: the shared buffer and the fields of the view it is called    *)
(* on.  Once a frame has panicked the rest of the handler does not run.    *)
(***************************************************************************)
\* New(); new(bytes.Buffer) is the first buffer of the heap
DefaultIndentSize == 2
New == [IndentSize |-> DefaultIndentSize, indentation |-> <<>>, buf |-> 1]

\* the frame of a call on view v: ref is the pointer w.buf, buf the text of
\* the buffer it points to
Frame(v) == [ref |-> views[v].buf, buf |-> heap[views[v].buf],
             IndentSize |-> views[v].IndentSize,
             indentation |-> views[v].indentation, panicked |-> FALSE]

\* write, were it to replace the contents of the buffer instead of appending
writeOver(w, text) ==
    IF w.panicked THEN w
    ELSE [w EXCEPT !.buf = w.indentation \o text]

\* w.write(format, args...): text is the result of fmt.Sprintf(format, args...)
write(w, text) ==
    IF w.panicked THEN w
    ELSE [w EXCEPT !.buf = w.buf \o w.indentation \o text]

\* indent, were it to add four spaces
indentFour(w) ==
    IF w.panicked THEN w
    ELSE [w EXCEPT !.indentation = w.indentation \o <<SP, SP, SP, SP>>]

indent(w) ==
    IF w.panicked THEN w
    ELSE [w EXCEPT !.indentation = w.indentation \o <<SP, SP>>]

\* unindent, were it to lack the test for an empty prefix
unindentNoEmptyTest(w) ==
    IF w.panicked THEN w
    ELSE IF Len(w.indentation) <= w.IndentSize THEN [w EXCEPT !.indentation = <<>>]
    ELSE IF Len(w.indentation) - w.IndentSize > Len(w.indentation)
         THEN [w EXCEPT !.panicked = TRUE]
    ELSE [w EXCEPT !.indentation =
              SubSeq(w.indentation, 1, Len(w.indentation) - w.IndentSize)]

\* the slice expression indentation[:len-IndentSize] panics when its bound is
\* outside 0..len
unindent(w) ==
    IF w.panicked THEN w
    ELSE IF Len(w.indentation) = 0 THEN w
    ELSE IF Len(w.indentation) <= w.IndentSize THEN [w EXCEPT !.indentation = <<>>]
    ELSE IF Len(w.indentation) - w.IndentSize > Len(w.indentation)
         THEN [w EXCEPT !.panicked = TRUE]
    ELSE [w EXCEPT !.indentation =
              SubSeq(w.indentation, 1, Len(w.indentation) - w.IndentSize)]

\* the loop of addArray over array[i..]
RECURSIVE writeElements(_, _, _)
writeElements(w, array, i) ==
    IF i > Len(array) THEN w
    ELSE writeElements(write(w, array[i] \o <<",", NL>>), array, i + 1)

addArray(w, key, array) ==
    LET w1 == write(w, key \o <<SP, "=", SP, "[", NL>>)
        w2 == indent(w1)
        w3 == writeElements(w2, array, 1)
        w4 == unindent(w3)
    IN  write(w4, <<"]", NL>>)

\* the child view, were a table body indented one level deeper than its header
ChildViewIndented(w) ==
    [IndentSize |-> w.IndentSize, indentation |-> w.indentation \o <<SP, SP>>,
     buf |-> w.ref]

\* the child view, were it given a buffer of its own
ChildViewOwnBuffer(w) ==
    [IndentSize |-> w.IndentSize, indentation |-> w.indentation, buf |-> w.ref + 1]

\* the child view AddTable hands to the callback
ChildView(w) ==
    [IndentSize |-> w.IndentSize, indentation |-> w.indentation, buf |-> w.ref]

\* the child view of AddArrayOfTables, were it to start from New's defaults
ArrayOfTablesChildViewFresh(w) ==
    [IndentSize |-> DefaultIndentSize, indentation |-> <<>>, buf |-> w.ref]

\* the child view AddArrayOfTables hands to the callback
ArrayOfTablesChildView(w) ==
    [IndentSize |-> w.IndentSize, indentation |-> w.indentation, buf |-> w.ref]

\* the frame after the header line of AddTable
TableHeader(w, name) == write(w, <<"[">> \o name \o <<"]", NL>>)

\* the frame after the header line of AddArrayOfTables
ArrayOfTablesHeader(w, name) == write(w, <<"[", "[">> \o name \o <<"]", "]", NL>>)

\* String, were it to drain the buffer it reads
StringDrain(w) == [ret |-> w.buf, w |-> [w EXCEPT !.buf = <<>>]]

\* w.String(): the text returned and the frame afterwards
String(w) == [ret |-> w.buf, w |-> w]

(***************************************************************************)
(* Inputs.                                                                 *)
(***************************************************************************)
Keys == {<<"k">>}
Names == {<<"t">>}
Msgs == {<<"m">>}
Strings == {<<"a">>}
Ints == {-7}
\* 50 and 0.004
Floats == {Float(FALSE, 5, 1), Float(FALSE, 4, -3)}
Bools == {TRUE, FALSE}
\* array arguments: empty, in two orders, with a duplicate
StringArrays == {<<>>, << <<"a">>, <<"b">> >>, << <<"b">>, <<"a">>, <<"a">> >>}
IntArrays == {<<>>, <<3, -7>>, <<-7, 3, 3>>}
FloatArrays == {<<>>, <<Float(FALSE, 5, 1), Float(FALSE, 4, -3)>>,
                <<Float(FALSE, 4, -3), Float(FALSE, 5, 1), Float(FALSE, 5, 1)>>}
BoolArrays == {<<>>, <<TRUE, FALSE>>, <<FALSE, TRUE, TRUE>>}
\* the values the caller assigns to the public field IndentSize
IndentSizes == {-1, 0, 1, 2, 4}

ArrayOps == {"AddStringArray", "AddIntArray", "AddFloatArray", "AddBoolArray"}
TableOps == {"AddTable", "AddArrayOfTables"}

(***************************************************************************)
(* State.  rendered is the text the last String() call returned; last     *)
(* records the last method call: its name, the name of the call before it, *)
(* the view it was called on, the number of views, and the buffer, indent *)
(* prefix and IndentSize of that view just before the call, and its       *)
(* arguments.                                                              *)
(***************************************************************************)
Op(name, v, key, args) ==
    [op |-> name, prev |-> last.op, view |-> v, depth |-> Len(views),
     pre |-> heap[views[v].buf],
     ind |-> views[v].indentation, size |-> views[v].IndentSize,
     key |-> key, args |-> args]

\* the buffers new(bytes.Buffer) can return, each empty until written
Buffers == 1..(MaxOps + 2)

Init ==
    /\ heap = [b \in Buffers |-> <<>>]
    /\ views = <<New>>
    /\ panicked = FALSE
    /\ rendered = <<>>
    /\ last = [op |-> "New", prev |-> "New", view |-> 1, depth |-> 0,
               pre |-> <<>>, ind |-> <<>>,
               size |-> DefaultIndentSize, key |-> <<>>, args |-> <<>>]
    /\ nops = 0

\* Finish, were the indent prefix one field shared by all the views
FinishShared(v, w, name, key, args) ==
    /\ heap' = [heap EXCEPT ![w.ref] = w.buf]
    /\ views' = [u \in 1..Len(views) |-> [views[u] EXCEPT !.indentation = w.indentation]]
    /\ panicked' = w.panicked
    /\ last' = Op(name, v, key, args)
    /\ nops' = nops + 1
    /\ UNCHANGED rendered

\* the state after a handler called on view v ends with frame w
Finish(v, w, name, key, args) ==
    /\ heap' = [heap EXCEPT ![w.ref] = w.buf]
    /\ views' = [views EXCEPT ![v].indentation = w.indentation]
    /\ panicked' = w.panicked
    /\ last' = Op(name, v, key, args)
    /\ nops' = nops + 1
    /\ UNCHANGED rendered

\* a method can be called on every view that is alive, until a call panics
CanCall(v) == ~panicked /\ v \in 1..Len(views)

\* the bound on the length of a run
Bounded == nops < MaxOps

AddNewLine(v) ==
    /\ CanCall(v)
    /\ Finish(v, write(Frame(v), <<NL>>), "AddNewLine", <<>>, <<>>)

\* AddComment, were it to end the comment with a newline
AddCommentLine(v, msg) ==
    /\ CanCall(v)
    /\ Finish(v, write(Frame(v), <<"#", SP>> \o msg \o <<NL>>), "AddComment", <<>>, <<msg>>)

AddComment(v, msg) ==
    /\ CanCall(v)
    /\ Finish(v, write(Frame(v), <<"#", SP>> \o msg), "AddComment", <<>>, <<msg>>)

AddString(v, key, value) ==
    /\ CanCall(v)
    /\ Finish(v, write(Frame(v), key \o <<SP, "=", SP, QUOTE>> \o value \o <<QUOTE, NL>>),
              "AddString", key, <<value>>)

AddInt(v, key, value) ==
    /\ CanCall(v)
    /\ Finish(v, write(Frame(v), key \o <<SP, "=", SP>> \o FormatInt(value) \o <<NL>>),
              "AddInt", key, <<value>>)

AddFloat(v, key, value) ==
    /\ CanCall(v)
    /\ Finish(v, write(Frame(v), key \o <<SP, "=", SP>> \o formatFloat(value) \o <<NL>>),
              "AddFloat", key, <<value>>)

AddBool(v, key, value) ==
    /\ CanCall(v)
    /\ Finish(v, write(Frame(v), key \o <<SP, "=", SP>> \o FormatBool(value) \o <<NL>>),
              "AddBool", key, <<value>>)

AddStringArray(v, key, array) ==
    /\ CanCall(v)
    /\ Finish(v, addArray(Frame(v), key,
                          [i \in 1..Len(array) |-> <<QUOTE>> \o array[i] \o <<QUOTE>>]),
              "AddStringArray", key, array)

AddIntArray(v, key, array) ==
    /\ CanCall(v)
    /\ Finish(v, addArray(Frame(v), key, [i \in 1..Len(array) |-> FormatInt(array[i])]),
              "AddIntArray", key, array)

AddFloatArray(v, key, array) ==
    /\ CanCall(v)
    /\ Finish(v, addArray(Frame(v), key, [i \in 1..Len(array) |-> formatFloat(array[i])]),
              "AddFloatArray", key, array)

AddBoolArray(v, key, array) ==
    /\ CanCall(v)
    /\ Finish(v, addArray(Frame(v), key, [i \in 1..Len(array) |-> FormatBool(array[i])]),
              "AddBoolArray", key, array)

\* AddTable up to the call of the callback: the header is written and the
\* callback starts with the child view on top of views
AddTable(v, name) ==
    /\ CanCall(v)
    /\ LET w == TableHeader(Frame(v), name)
       IN  /\ heap' = [heap EXCEPT ![w.ref] = w.buf]
           /\ views' = Append(views, ChildView(w))
    /\ last' = Op("AddTable", v, name, <<>>)
    /\ nops' = nops + 1
    /\ UNCHANGED <<panicked, rendered>>

AddArrayOfTables(v, name) ==
    /\ CanCall(v)
    /\ LET w == ArrayOfTablesHeader(Frame(v), name)
       IN  /\ heap' = [heap EXCEPT ![w.ref] = w.buf]
           /\ views' = Append(views, ArrayOfTablesChildView(w))
    /\ last' = Op("AddArrayOfTables", v, name, <<>>)
    /\ nops' = nops + 1
    /\ UNCHANGED <<panicked, rendered>>

\* Return, were the table call to end the body with a blank line
ReturnWithNewline ==
    /\ ~panicked
    /\ Len(views) > 1
    /\ heap' = [heap EXCEPT ![views[Len(views)].buf] = @ \o <<NL>>]
    /\ views' = SubSeq(views, 1, Len(views) - 1)
    /\ last' = Op("Return", Len(views), <<>>, <<>>)
    /\ UNCHANGED <<panicked, rendered, nops>>

\* the innermost callback returns, and with it the AddTable or
\* AddArrayOfTables call that invoked it; its child view is discarded
Return ==
    /\ ~panicked
    /\ Len(views) > 1
    /\ views' = SubSeq(views, 1, Len(views) - 1)
    /\ last' = Op("Return", Len(views), <<>>, <<>>)
    /\ UNCHANGED <<heap, panicked, rendered, nops>>

\* the caller assigns the public field IndentSize of view v
SetIndentSize(v, n) ==
    /\ CanCall(v)
    /\ views' = [views EXCEPT ![v].IndentSize = n]
    /\ last' = Op("SetIndentSize", v, <<>>, <<n>>)
    /\ nops' = nops + 1
    /\ UNCHANGED <<heap, panicked, rendered>>

CallString(v) ==
    /\ CanCall(v)
    /\ LET r == String(Frame(v))
       IN  /\ rendered' = r.ret
           /\ heap' = [heap EXCEPT ![r.w.ref] = r.w.buf]
           /\ views' = [views EXCEPT ![v].indentation = r.w.indentation,
                                     ![v].IndentSize = r.w.IndentSize]
    /\ last' = Op("String", v, <<>>, <<>>)
    /\ nops' = nops + 1
    /\ UNCHANGED panicked

\* every call but the last can open a table
Views == 1..(MaxOps + 1)

Next ==
    \/ \E v \in Views : Bounded /\ AddNewLine(v)
    \/ \E v \in Views, msg \in Msgs : Bounded /\ AddComment(v, msg)
    \/ \E v \in Views, key \in Keys, value \in Strings : Bounded /\ AddString(v, key, value)
    \/ \E v \in Views, key \in Keys, value \in Ints : Bounded /\ AddInt(v, key, value)
    \/ \E v \in Views, key \in Keys, value \in Floats : Bounded /\ AddFloat(v, key, value)
    \/ \E v \in Views, key \in Keys, value \in Bools : Bounded /\ AddBool(v, key, value)
    \/ \E v \in Views, key \in Keys, array \in StringArrays :
           Bounded /\ AddStringArray(v, key, array)
    \/ \E v \in Views, key \in Keys, array \in IntArrays :
           Bounded /\ AddIntArray(v, key, array)
    \/ \E v \in Views, key \in Keys, array \in FloatArrays :
           Bounded /\ AddFloatArray(v, key, array)
    \/ \E v \in Views, key \in Keys, array \in BoolArrays :
           Bounded /\ AddBoolArray(v, key, array)
    \/ \E v \in Views, name \in Names : Bounded /\ AddTable(v, name)
    \/ \E v \in Views, name \in Names : Bounded /\ AddArrayOfTables(v, name)
    \/ Return
    \/ \E v \in Views, n \in IndentSizes : Bounded /\ SetIndentSize(v, n)
    \/ \E v \in Views : Bounded /\ CallString(v)

Spec == Init /\ [][Next]_vars

(***************************************************************************)
(* The builder when no caller assigns IndentSize: every view keeps the     *)
(* value New gives it.                                                     *)
(***************************************************************************)
NextDefault ==
    \/ \E v \in Views : Bounded /\ AddNewLine(v)
    \/ \E v \in Views, msg \in Msgs : Bounded /\ AddComment(v, msg)
    \/ \E v \in Views, key \in Keys, value \in Strings : Bounded /\ AddString(v, key, value)
    \/ \E v \in Views, key \in Keys, value \in Ints : Bounded /\ AddInt(v, key, value)
    \/ \E v \in Views, key \in Keys, value \in Floats : Bounded /\ AddFloat(v, key, value)
    \/ \E v \in Views, key \in Keys, value \in Bools : Bounded /\ AddBool(v, key, value)
    \/ \E v \in Views, key \in Keys, array \in StringArrays :
           Bounded /\ AddStringArray(v, key, array)
    \/ \E v \in Views, key \in Keys, array \in IntArrays :
           Bounded /\ AddIntArray(v, key, array)
    \/ \E v \in Views, key \in Keys, array \in FloatArrays :
           Bounded /\ AddFloatArray(v, key, array)
    \/ \E v \in Views, key \in Keys, array \in BoolArrays :
           Bounded /\ AddBoolArray(v, key, array)
    \/ \E v \in Views, name \in Names : Bounded /\ AddTable(v, name)
    \/ \E v \in Views, name \in Names : Bounded /\ AddArrayOfTables(v, name)
    \/ Return
    \/ \E v \in Views : Bounded /\ CallString(v)

SpecDefault == Init /\ [][NextDefault]_vars

(***************************************************************************)
(* The program of the README: AddString("title", ...), AddFloat("budget",  *)
(* ...), AddTable("g", callback) whose callback calls AddString("c", ...)  *)
(* and AddInt("n", ...) on its view, then String().  The values are drawn  *)
(* from small sets.                                                        *)
(***************************************************************************)
KeyTitle == <<"t", "i", "t", "l", "e">>
KeyBudget == <<"b", "u", "d", "g", "e", "t">>
ReadmeStrings == {<<"x">>, <<"y">>, <<"m", "&", "m", "s">>}
\* 50, 8, 0.004 and 23.45
ReadmeFloats == {Float(FALSE, 5, 1), Float(FALSE, 8, 0), Float(FALSE, 4, -3),
                 Float(FALSE, 2345, -2)}
ReadmeInts == {3, 0, -12}

NextReadme ==
    \/ nops = 0 /\ \E value \in ReadmeStrings : AddString(1, KeyTitle, value)
    \/ nops = 1 /\ \E value \in ReadmeFloats : AddFloat(1, KeyBudget, value)
    \/ nops = 2 /\ AddTable(1, <<"g">>)
    \/ nops = 3 /\ \E value \in ReadmeStrings : AddString(2, <<"c">>, value)
    \/ nops = 4 /\ \E value \in ReadmeInts : AddInt(2, <<"n">>, value)
    \/ nops = 5 /\ Return
    \/ nops = 5 /\ Len(views) = 1 /\ CallString(1)

SpecReadme == Init /\ [][NextReadme]_vars

(***************************************************************************)
(* formatFloat on its own: one AddFloat or AddFloatArray call on a new     *)
(* builder, with the float drawn from the decimals m * 10^e of up to       *)
(* MaxMant in the mantissa and MaxExp in the exponent.                     *)
(***************************************************************************)
MaxMant == 12
MaxExp == 6
FloatInputs ==
    {Float(FALSE, 0, 0)} \cup
    {Float(neg, m, e) : neg \in BOOLEAN,
                        m \in {x \in 1..MaxMant : x % 10 # 0},
                        e \in (0 - MaxExp)..MaxExp}

NextFloat ==
    \/ nops = 0 /\ \E value \in FloatInputs : AddFloat(1, <<"k">>, value)
    \/ nops = 0 /\ \E value \in FloatInputs : AddFloatArray(1, <<"k">>, <<value>>)

SpecFloat == Init /\ [][NextFloat]_vars

(***************************************************************************)
(* unindent on its own: a builder with an IndentSize of -MaxSize..MaxSize  *)
(* and a prefix of 0..MaxIndent spaces, on which unindent is called up to  *)
(* MaxOps times.                                                           *)
(***************************************************************************)
MaxSize == 4
MaxIndent == 6

RECURSIVE Spaces(_)
Spaces(n) == IF n <= 0 THEN <<>> ELSE <<SP>> \o Spaces(n - 1)

InitUnindent ==
    /\ heap = [b \in Buffers |-> <<>>]
    /\ \E n \in (0 - MaxSize)..MaxSize, k \in 0..MaxIndent :
           views = <<[IndentSize |-> n, indentation |-> Spaces(k), buf |-> 1]>>
    /\ panicked = FALSE
    /\ rendered = <<>>
    /\ last = [op |-> "New", prev |-> "New", view |-> 1, depth |-> 0,
               pre |-> <<>>, ind |-> <<>>,
               size |-> DefaultIndentSize, key |-> <<>>, args |-> <<>>]
    /\ nops = 0

CallUnindent ==
    /\ CanCall(1)
    /\ Bounded
    /\ Finish(1, unindent(Frame(1)), "unindent", <<>>, <<>>)

SpecUnindent == InitUnindent /\ [][CallUnindent]_vars

(***************************************************************************)
(* Properties.                                                             *)
(***************************************************************************)
\* the text the last call appended to the buffer
Appended == Suffix(buf, Len(last.pre))
\* a line without its leading spaces
Unindented(line) == Suffix(line, Leading(line, SP))
\* the text of element x of an array emitter's argument
ElementText(op, x) ==
    CASE op = "AddStringArray" -> <<QUOTE>> \o x \o <<QUOTE>>
      [] op = "AddIntArray" -> FormatInt(x)
      [] op = "AddFloatArray" -> formatFloat(x)
      [] op = "AddBoolArray" -> FormatBool(x)

\* C1: every call of an array emitter with an argument of n elements appends
\* exactly n+2 lines, each ended by a newline: the opening line `key = [`,
\* the n formatted elements in the order of the argument, each followed by a
\* comma, and the closing line `]`.
C1_ArrayAppendsLines ==
    last.op \in ArrayOps =>
        LET n == Len(last.args)
            ls == Lines(Appended)
        IN  /\ IsPrefix(last.pre, buf)
            /\ Len(ls) = n + 2
            /\ Count(Appended, NL) = n + 2
            /\ Unindented(ls[1]) = last.key \o <<SP, "=", SP, "[">>
            /\ \A i \in 1..n :
                   Unindented(ls[i + 1]) = ElementText(last.op, last.args[i]) \o <<",">>
            /\ Unindented(ls[n + 2]) = <<"]">>

\* C2: after an array emitter returns, the indent prefix of the view it was
\* called on is the prefix the view had just before the call, whatever
\* IndentSize is.
C2_IndentRestored ==
    (last.op \in ArrayOps /\ ~panicked) =>
        views[last.view].indentation = last.ind

\* C3: the element lines of an array are indented by IndentSize spaces more
\* than its opening line (IndentSize is 2 unless the caller has set it).
C3_ElementIndentIsIndentSize ==
    (last.op \in ArrayOps /\ last.size >= 0 /\ Len(last.args) > 0) =>
        LET ls == Lines(Appended)
        IN  \A i \in 2..(Len(last.args) + 1) :
                i <= Len(ls) =>
                    Leading(ls[i], SP) = Leading(ls[1], SP) + last.size

\* C4: the README program with the values "x", 50, "y" and 3 renders
\* title = "x" / budget = 50.0 / (blank line) / [g] / c = "y" / n = 3.
C4_ReadmeText ==
    <<"t", "i", "t", "l", "e", " ", "=", " ", "\"", "x", "\"", "\n",
      "b", "u", "d", "g", "e", "t", " ", "=", " ", "5", "0", ".", "0", "\n",
      "\n",
      "[", "g", "]", "\n",
      "c", " ", "=", " ", "\"", "y", "\"", "\n",
      "n", " ", "=", " ", "3", "\n">>
C4_ReadmeOutput ==
    (/\ last.op = "String"
     /\ Len(Lines(rendered)) >= 4
     /\ Lines(rendered)[1] = Lines(C4_ReadmeText)[1]
     /\ Lines(rendered)[2] = Lines(C4_ReadmeText)[2]
     /\ Lines(rendered)[Len(Lines(rendered)) - 1] = Lines(C4_ReadmeText)[5]
     /\ Lines(rendered)[Len(Lines(rendered))] = Lines(C4_ReadmeText)[6])
    => rendered = C4_ReadmeText

C6_NoPanic == ~panicked

\* C7: AddNewLine appends the single character "\n" and nothing else,
\* whatever the indent prefix of the view.
C7_NewLineOnly ==
    last.op = "AddNewLine" => buf = last.pre \o <<NL>>

\* C8: AddComment(msg) appends the indent prefix, `# ` and msg, with no
\* newline; what the next call appends continues the line of the comment.
C8_CommentNoNewline ==
    [][/\ last'.op = "AddComment" =>
           /\ buf' = buf \o last'.ind \o <<"#", SP>> \o last'.args[1]
           /\ Count(buf', NL) = Count(buf, NL)
       /\ (last.op = "AddComment" /\ buf' # buf) =>
           LET k == Len(Lines(buf))
           IN  /\ Len(Lines(buf')) >= k
               /\ IsPrefix(Lines(buf)[k], Lines(buf')[k])
               /\ (buf'[Len(buf) + 1] # NL =>
                       Len(Lines(buf')[k]) > Len(Lines(buf)[k]))]_vars
\* a call has appended its text to the line of a comment
C8_Witness ==
    /\ last.op \in {"AddString", "AddInt", "AddFloat", "AddBool"} \cup ArrayOps \cup TableOps
    /\ last.pre # <<>>
    /\ last.pre[Len(last.pre)] = "m"
    /\ Lines(buf)[Len(Lines(last.pre))][1] = "#"

\* C9: the buffer is append-only: the text before a step is a prefix of the
\* text after it, for calls on the root and on child views and for
\* assignments to IndentSize.
C9_AppendOnly == [][IsPrefix(buf, buf')]_vars
\* a child view has appended to text written before IndentSize was changed
C9_Witness ==
    /\ last.view > 1
    /\ last.pre # <<>>
    /\ buf # last.pre
    /\ views[1].IndentSize # DefaultIndentSize

\* C10: String() changes neither the buffer nor any view, returns the text
\* of the buffer, and returns the same text when called twice in a row.
C10_StringIdempotent ==
    [][last'.op = "String" =>
           /\ buf' = buf
           /\ views' = views
           /\ rendered' = buf
           /\ (last.op = "String" => rendered' = rendered)]_vars
\* String() has been called twice in a row on a buffer that is not empty
C10_Witness ==
    /\ last.op = "String"
    /\ last.prev = "String"
    /\ rendered # <<>>
    /\ rendered = buf

\* C11: the root builder and every child view, at any nesting depth, share
\* one buffer: String() called on any live view returns the same text.
C11_ViewsShareBuffer ==
    \A v \in 1..Len(views) : String(Frame(v)).ret = String(Frame(1)).ret
\* a view two tables deep has written, and the root sees the text
C11_Witness ==
    /\ Len(views) >= 3
    /\ last.view = Len(views)
    /\ last.op = "AddString"
    /\ String(Frame(1)).ret = last.pre \o last.ind
                                \o <<"k", SP, "=", SP, QUOTE, "a", QUOTE, NL>>

RECURSIVE Pow10(_)
Pow10(e) == IF e <= 0 THEN 1 ELSE 10 * Pow10(e - 1)
\* a float that has an integer value, and the base-10 text of that integer
IsWhole(val) == val.m = 0 \/ val.e >= 0
WholeText(val) == FormatInt((IF val.neg THEN 0 - val.m ELSE val.m) * Pow10(val.e))

\* C13: AddFloat and every element of AddFloatArray render a float with an
\* integer value as the base-10 text of the integer followed by `.0`.
C13_WholeFloatText ==
    /\ (last.op = "AddFloat" /\ IsWhole(last.args[1])) =>
           Appended = last.ind \o last.key \o <<SP, "=", SP>>
                      \o WholeText(last.args[1]) \o <<".", "0", NL>>
    /\ (last.op = "AddFloatArray" /\ ~panicked) =>
           \A i \in 1..Len(last.args) :
               IsWhole(last.args[i]) =>
                   Unindented(Lines(Appended)[i + 1])
                       = WholeText(last.args[i]) \o <<".", "0", ",">>

\* C14: unindent on a builder whose indent prefix is empty leaves the prefix
\* empty and does not panic, whatever IndentSize is; no prefix has a
\* negative length.
C14_UnindentAtRoot ==
    /\ (last.op = "unindent" /\ last.ind = <<>>) =>
           /\ ~panicked
           /\ views[last.view].indentation = <<>>
    /\ \A v \in 1..Len(views) : Len(views[v].indentation) >= 0
\* unindent has been called on an empty prefix with a negative IndentSize
C14_Witness ==
    /\ last.op = "unindent"
    /\ last.ind = <<>>
    /\ last.size < 0
    /\ ~panicked

\* C15: AddArrayOfTables does what AddTable does, with the header [[name]] in
\* place of [name]: the header line is appended at the caller's prefix to
\* whatever the buffer holds, the callback gets the child view AddTable would
\* give it, and the caller keeps its IndentSize and its prefix.
C15_ArrayOfTablesLikeTable ==
    last.op = "AddArrayOfTables" =>
        /\ heap[views[last.view].buf] =
               last.pre \o last.ind \o <<"[", "[">> \o last.key \o <<"]", "]", NL>>
        /\ Len(views) = last.depth + 1
        /\ views[Len(views)] = ChildView([ref |-> views[last.view].buf,
                                          IndentSize |-> last.size,
                                          indentation |-> last.ind])
        /\ views[last.view].IndentSize = last.size
        /\ views[last.view].indentation = last.ind
\* a second AddArrayOfTables with the name of an earlier, finished one
C15_Witness ==
    /\ last.op = "AddArrayOfTables"
    /\ Len(views) = 2
    /\ Lines(buf) = << <<"[", "[", "t", "]", "]">>,
                       <<"k", SP, "=", SP, QUOTE, "a", QUOTE>>,
                       <<"[", "[", "t", "]", "]">> >>

\* the calls that write a key/value line, an array or a table header
ScalarOps == {"AddString", "AddInt", "AddFloat", "AddBool"}
LineOps == ScalarOps \cup ArrayOps \cup TableOps
\* text t ends a line: what is appended to it starts at column 0
AtLineStart(t) == t = <<>> \/ t[Len(t)] = NL
\* text t ends in a comment that no newline has closed
OpenComment(t) ==
    /\ ~AtLineStart(t)
    /\ Head(Lines(t)[Len(Lines(t))]) = "#"
\* every view has the default IndentSize and an empty prefix
DefaultViews ==
    /\ ~panicked
    /\ \A v \in 1..Len(views) :
           /\ views[v].IndentSize = DefaultIndentSize
           /\ views[v].indentation = <<>>
\* the lines the last call wrote carry no leading spaces, but for the element
\* lines of an array, which carry two
LinesIndented ==
    LET ls == Lines(Appended)
    IN  \A i \in 1..Len(ls) :
            Leading(ls[i], SP) =
                IF last.op \in ArrayOps /\ i >= 2 /\ i <= Len(last.args) + 1
                THEN 2 ELSE 0

\* C16, as stated: with the default IndentSize on every view, between calls
\* the prefix of every view is empty, and every table header, key/value line
\* and array opening or closing line starts at column 0 and every element
\* line is indented by two spaces, for any sequence of calls.
C16_LinesStartAtColumnZero ==
    /\ DefaultViews
    /\ last.op \in LineOps => (AtLineStart(last.pre) /\ LinesIndented)

\* C16, amended: with the default IndentSize on every view, between calls the
\* prefix of every view is empty, and every table header, key/value line and
\* array opening or closing line is written without indentation and every
\* element line with two spaces; the first of these lines starts at column 0
\* unless the buffer ends in a comment that no AddNewLine has closed, and
\* then it continues the line of the comment.
C16_NoIndentAtDefault ==
    /\ DefaultViews
    /\ last.op \in LineOps =>
           /\ AtLineStart(last.pre) \/ OpenComment(last.pre)
           /\ LinesIndented
\* an array with elements written through a child view, after an open comment
C16_Witness ==
    /\ last.op \in ArrayOps
    /\ last.view = 2
    /\ Len(last.args) > 0
    /\ OpenComment(last.pre)
    /\ Len(Lines(Appended)) = Len(last.args) + 2

\* C17: a child view starts with copies of the IndentSize and the prefix of
\* the view the table call was made on; a call made through one view, or an
\* assignment to its IndentSize, changes no field of any other view; the
\* table call itself and its return change no field of the caller, and the
\* return leaves the buffer as the callback left it.
C17_ParentUnchanged ==
    [][/\ \A u \in 1..Len(views) :
              (u <= Len(views') /\ u # last'.view) => views'[u] = views[u]
       /\ last'.op \in TableOps =>
              /\ views'[last'.view] = views[last'.view]
              /\ Len(views') = Len(views) + 1
              /\ views'[Len(views')].IndentSize = views[last'.view].IndentSize
              /\ views'[Len(views')].indentation = views[last'.view].indentation
       /\ last'.op = "Return" =>
              /\ views' = SubSeq(views, 1, Len(views) - 1)
              /\ heap' = heap]_vars
\* a callback has set its child's IndentSize to 0 and emitted an array through
\* it, which left two spaces in the child's prefix, and has returned
C17_Witness ==
    /\ last.op = "Return"
    /\ last.prev \in ArrayOps
    /\ last.size = 0
    /\ last.ind = <<SP, SP>>
    /\ Len(views) = 1
    /\ views[1] = New
    /\ ~panicked

====
